---- MODULE Spec2Model ----
(***************************************************************************)
(* Deployment manifest parser of bosh-init (deployment/manifest/parser.go). *)
(*                                                                         *)
(* Parse reads a file, decodes it into the intermediate `manifest`, and    *)
(* parseDeploymentManifest builds the typed Manifest section by section.   *)
(* Every caller of Parse is a process; each statement group of Parse and   *)
(* parseDeploymentManifest is one step of that process.                    *)
(*                                                                         *)
(* Go values are represented as follows.                                   *)
(*   slice            [isNil, elems]   elems a sequence                    *)
(*   map              [isNil, kv]      kv a function over the keys         *)
(*   *string          [isNil, s]       s a sequence of characters          *)
(*   interface{}      [t, v]           t the dynamic type of v             *)
(*   interface{} key  [kt, ks]         kt the dynamic type, ks its text    *)
(*   error            sequence of messages, outermost first; <<>> is nil   *)
(* An error message stands for its format string; of its arguments only    *)
(* the names of entries and of dynamic types are kept.                     *)
(***************************************************************************)
EXTENDS Integers, Sequences, FiniteSets, TLC

VARIABLES
    boshDeploymentDefaults,  \* the package-level default Manifest
    pc,                      \* pc[c]: where caller c is inside Parse
    path,                    \* path[c]: the file caller c passed to Parse
    comboManifest,           \* comboManifest[c]: the decoded intermediate document
    deployment,              \* deployment[c]: the local of parseDeploymentManifest
    inner,                   \* inner[c]: what parseDeploymentManifest returned
    ret,                     \* ret[c]: what Parse returned
    calls                    \* calls[c]: the callees Parse has invoked, in order

vars == <<boshDeploymentDefaults, pc, path, comboManifest, deployment, inner, ret, calls>>

(***************************************************************************)
(* Bounds of the model.                                                    *)
(***************************************************************************)
NumCallers == 2     \* concurrent callers of Parse
MaxEntries == 2     \* entries of the section that a document varies
MaxWatchLen == 3    \* characters of a watch-time expression

Callers == 1..NumCallers
FirstCaller == CHOOSE c \in Callers : \A d \in Callers : c <= d

Min(S) == CHOOSE i \in S : \A j \in S : i <= j

(***************************************************************************)
(* Go values.                                                              *)
(***************************************************************************)
NoError == <<>>
Wrap(err, msg) == <<msg>> \o err

NilSlice == [isNil |-> TRUE, elems |-> <<>>]
Slice(s) == [isNil |-> FALSE, elems |-> s]

NilMap == [isNil |-> TRUE, kv |-> <<>>]
EmptyMap == [isNil |-> FALSE, kv |-> <<>>]

NilString == [isNil |-> TRUE, s |-> <<>>]
StringPtr(s) == [isNil |-> FALSE, s |-> s]

ScalarTypes == {"null", "string", "int", "float", "bool"}
StrKey(s) == [kt |-> "string", ks |-> s]
Scalar(t, s) == [t |-> t, v |-> s]
RawMapOf(kv) == [isNil |-> FALSE, kv |-> kv]

(***************************************************************************)
(* The typed model (Manifest and its parts) and their zero values.         *)
(***************************************************************************)
WatchTime(start, end) == [Start |-> start, End |-> end]
Update(wt) == [UpdateWatchTime |-> wt]

ZeroManifest ==
    [Name |-> "", Update |-> Update(WatchTime(0, 0)), Networks |-> NilSlice,
     ResourcePools |-> NilSlice, DiskPools |-> NilSlice, Jobs |-> NilSlice,
     Properties |-> NilMap]

ZeroNetwork ==
    [Name |-> "", Type |-> "", CloudProperties |-> NilMap, IP |-> "",
     Netmask |-> "", Gateway |-> "", DNS |-> NilSlice]

ZeroResourcePool ==
    [Name |-> "", Network |-> "", CloudProperties |-> NilMap, Env |-> NilMap]

ZeroDiskPool == [Name |-> "", DiskSize |-> 0, CloudProperties |-> NilMap]

ZeroJob ==
    [Name |-> "", Instances |-> 0, Lifecycle |-> "", Templates |-> NilSlice,
     Networks |-> NilSlice, PersistentDisk |-> 0, PersistentDiskPool |-> "",
     Properties |-> NilMap]

DefaultWatchTimeStart == 0
DefaultWatchTimeEnd == 300000

DeploymentDefaults ==
    [ZeroManifest EXCEPT
        !.Update = Update(WatchTime(DefaultWatchTimeStart, DefaultWatchTimeEnd))]

(***************************************************************************)
(* Property tree builder (common/property).  A mapping requires every key  *)
(* to be a string and builds every value; a sequence builds every element; *)
(* a scalar is copied; any other dynamic type is an error.  A nil map      *)
(* builds to an empty, non-nil map.  When a map holds several offending    *)
(* entries the one reported depends on the iteration order of the map:     *)
(* the documents of the model hold at most one per map.                    *)
(***************************************************************************)
RECURSIVE Build(_)
Build(val) ==
    IF val.t = "map" THEN
        LET keys == DOMAIN val.v
            badKeys == {k \in keys : k.kt # "string"}
            sub == [k \in keys |-> Build(val.v[k])]
            badVals == {k \in keys : sub[k].err # NoError}
            names == {k.ks : k \in keys}
            keyOf(s) == CHOOSE k \in keys : k.ks = s
        IN  IF badKeys # {} THEN
                [val |-> Scalar("null", ""),
                 err |-> <<"unsupported key type", (CHOOSE k \in badKeys : TRUE).kt>>]
            ELSE IF badVals # {} THEN
                LET k == CHOOSE b \in badVals : TRUE
                IN  [val |-> Scalar("null", ""),
                     err |-> Wrap(sub[k].err, k.ks)]
            ELSE [val |-> [t |-> "map", v |-> [s \in names |-> sub[keyOf(s)].val]],
                  err |-> NoError]
    ELSE IF val.t = "seq" THEN
        LET n == Len(val.v)
            sub == [i \in 1..n |-> Build(val.v[i])]
            bad == {i \in 1..n : sub[i].err # NoError}
        IN  IF bad # {} THEN
                [val |-> Scalar("null", ""), err |-> sub[Min(bad)].err]
            ELSE [val |-> [t |-> "seq", v |-> [i \in 1..n |-> sub[i].val]],
                  err |-> NoError]
    ELSE IF val.t \in ScalarTypes THEN [val |-> val, err |-> NoError]
    ELSE [val |-> Scalar("null", ""), err |-> <<"unsupported value type", val.t>>]

BuildMap(rawProperties) ==
    IF rawProperties.isNil THEN [val |-> EmptyMap, err |-> NoError]
    ELSE LET r == Build([t |-> "map", v |-> rawProperties.kv])
         IN  IF r.err # NoError THEN [val |-> EmptyMap, err |-> r.err]
             ELSE [val |-> [isNil |-> FALSE, kv |-> r.val.v], err |-> NoError]

(***************************************************************************)
(* Watch time parser (deployment/manifest, NewWatchTime).  The expression  *)
(* is one integer literal (the end, start 0) or two literals separated by  *)
(* "-"; literals are non-negative; of two bounds, start <= end.            *)
(***************************************************************************)
Digits == <<"0", "1", "2", "3", "4", "5", "6", "7", "8", "9">>
IsDigit(ch) == \E i \in 1..Len(Digits) : Digits[i] = ch
DigitValue(ch) == (CHOOSE i \in 1..Len(Digits) : Digits[i] = ch) - 1

RECURSIVE Split(_, _)
Split(s, sep) ==
    LET at == {i \in 1..Len(s) : s[i] = sep}
    IN  IF at = {} THEN <<s>>
        ELSE <<SubSeq(s, 1, Min(at) - 1)>> \o Split(SubSeq(s, Min(at) + 1, Len(s)), sep)

RECURSIVE Atoi(_)
Atoi(s) ==
    IF s = <<>> \/ \E i \in 1..Len(s) : ~IsDigit(s[i])
    THEN [val |-> 0, err |-> <<"malformed watch time">>]
    ELSE IF Len(s) = 1 THEN [val |-> DigitValue(s[1]), err |-> NoError]
    ELSE [val |-> 10 * Atoi(SubSeq(s, 1, Len(s) - 1)).val + DigitValue(s[Len(s)]),
          err |-> NoError]

NewWatchTime(timeRange) ==
    LET parts == Split(timeRange, "-")
    IN  IF Len(parts) = 1 THEN
            LET end == Atoi(parts[1])
            IN  IF end.err # NoError THEN [val |-> WatchTime(0, 0), err |-> end.err]
                ELSE [val |-> WatchTime(0, end.val), err |-> NoError]
        ELSE IF Len(parts) = 2 THEN
            LET start == Atoi(parts[1])
                end == Atoi(parts[2])
            IN  IF start.err # NoError THEN [val |-> WatchTime(0, 0), err |-> start.err]
                ELSE IF end.err # NoError THEN [val |-> WatchTime(0, 0), err |-> end.err]
                ELSE IF start.val > end.val THEN
                    [val |-> WatchTime(0, 0),
                     err |-> <<"invalid interval">>]
                ELSE [val |-> WatchTime(start.val, end.val), err |-> NoError]
        ELSE [val |-> WatchTime(0, 0), err |-> <<"malformed watch time">>]

(***************************************************************************)
(* Section parsers.  Each allocates the output slice at the length of the  *)
(* input and fills it index by index; on the first entry whose property    *)
(* block does not build it returns the slice as filled so far (the         *)
(* remaining entries are zero values) together with the wrapped error.     *)
(***************************************************************************)
FirstBad(n, bad) == IF bad = {} THEN n + 1 ELSE Min(bad)

NetworkOf(rawNetwork, cloudProperties) ==
    [Name |-> rawNetwork.Name, Type |-> rawNetwork.Type,
     CloudProperties |-> cloudProperties, IP |-> rawNetwork.IP,
     Netmask |-> rawNetwork.Netmask, Gateway |-> rawNetwork.Gateway,
     DNS |-> rawNetwork.DNS]

parseNetworkManifests(rawNetworks) ==
    LET raw == rawNetworks.elems
        n == Len(raw)
        cloud(i) == BuildMap(raw[i].CloudProperties)
        stop == FirstBad(n, {i \in 1..n : cloud(i).err # NoError})
    IN  [val |-> Slice([i \in 1..n |->
                    IF i < stop THEN NetworkOf(raw[i], cloud(i).val) ELSE ZeroNetwork]),
         err |-> IF stop > n THEN NoError
                 ELSE <<"Parsing network cloud_properties", raw[stop].Name>>
                      \o cloud(stop).err]

parseResourcePoolManifests(rawResourcePools) ==
    LET raw == rawResourcePools.elems
        n == Len(raw)
        cloud(i) == BuildMap(raw[i].CloudProperties)
        env(i) == BuildMap(raw[i].Env)
        stop == FirstBad(n, {i \in 1..n : cloud(i).err # NoError \/ env(i).err # NoError})
    IN  [val |-> Slice([i \in 1..n |->
                    IF i < stop
                    THEN [Name |-> raw[i].Name, Network |-> raw[i].Network,
                          CloudProperties |-> cloud(i).val, Env |-> env(i).val]
                    ELSE ZeroResourcePool]),
         err |-> IF stop > n THEN NoError
                 ELSE IF cloud(stop).err # NoError
                 THEN <<"Parsing resource_pool cloud_properties", raw[stop].Name>>
                      \o cloud(stop).err
                 ELSE <<"Parsing resource_pool env", raw[stop].Name>> \o env(stop).err]

parseDiskPoolManifests(rawDiskPools) ==
    LET raw == rawDiskPools.elems
        n == Len(raw)
        cloud(i) == BuildMap(raw[i].CloudProperties)
        stop == FirstBad(n, {i \in 1..n : cloud(i).err # NoError})
    IN  [val |-> Slice([i \in 1..n |->
                    IF i < stop
                    THEN [Name |-> raw[i].Name, DiskSize |-> raw[i].DiskSize,
                          CloudProperties |-> cloud(i).val]
                    ELSE ZeroDiskPool]),
         err |-> IF stop > n THEN NoError
                 ELSE <<"Parsing disk_pool cloud_properties", raw[stop].Name>>
                      \o cloud(stop).err]

\* Variant: a job without a lifecycle is given the lifecycle "service".
JobOfDefaultLifecycle(rawJob) ==
    [ZeroJob EXCEPT !.Name = rawJob.Name,
                    !.Instances = rawJob.Instances,
                    !.Lifecycle = IF rawJob.Lifecycle = "" THEN "service"
                                  ELSE rawJob.Lifecycle,
                    !.PersistentDisk = rawJob.PersistentDisk,
                    !.PersistentDiskPool = rawJob.PersistentDiskPool]

\* The literal that starts a Job: the scalar fields are copied.
JobOf(rawJob) ==
    [ZeroJob EXCEPT !.Name = rawJob.Name,
                    !.Instances = rawJob.Instances,
                    !.Lifecycle = rawJob.Lifecycle,
                    !.PersistentDisk = rawJob.PersistentDisk,
                    !.PersistentDiskPool = rawJob.PersistentDiskPool]

\* Variant: a template reference named like an earlier one is dropped.
JobTemplatesDeduplicated(rawTemplates) ==
    IF rawTemplates.isNil THEN NilSlice
    ELSE LET raw == rawTemplates.elems
             first == SelectSeq([i \in 1..Len(raw) |-> i],
                                LAMBDA i : \A j \in 1..(i - 1) : raw[j].Name # raw[i].Name)
         IN  Slice([k \in 1..Len(first) |->
                        [Name |-> raw[first[k]].Name, Release |-> raw[first[k]].Release]])

\* Variant: a template reference without a name is dropped.
JobTemplatesNamedOnly(rawTemplates) ==
    IF rawTemplates.isNil THEN NilSlice
    ELSE LET named == SelectSeq(rawTemplates.elems, LAMBDA ref : ref.Name # "")
         IN  Slice([k \in 1..Len(named) |->
                        [Name |-> named[k].Name, Release |-> named[k].Release]])

\* The template references of a job: left nil when the input is nil.
JobTemplates(rawTemplates) ==
    IF rawTemplates.isNil THEN NilSlice
    ELSE Slice([i \in 1..Len(rawTemplates.elems) |->
                    [Name |-> rawTemplates.elems[i].Name,
                     Release |-> rawTemplates.elems[i].Release]])

\* The default-routing tags of a network attachment.
NetworkDefaults(rawDefault) ==
    IF rawDefault.isNil THEN NilSlice
    ELSE Slice([i \in 1..Len(rawDefault.elems) |-> rawDefault.elems[i]])

\* The network attachments of a job: left nil when the input is nil.
JobNetworks(rawJobNetworks) ==
    IF rawJobNetworks.isNil THEN NilSlice
    ELSE Slice([i \in 1..Len(rawJobNetworks.elems) |->
                    [Name |-> rawJobNetworks.elems[i].Name,
                     StaticIPs |-> rawJobNetworks.elems[i].StaticIPs,
                     Default |-> NetworkDefaults(rawJobNetworks.elems[i].Default)]])

\* Variant: the properties of a job are built whether nil or not.
JobPropertiesAlwaysBuilt(rawProperties) == BuildMap(rawProperties)

\* The properties of a job: built only when the input is not nil.
JobProperties(rawProperties) ==
    IF rawProperties.isNil THEN [val |-> NilMap, err |-> NoError]
    ELSE BuildMap(rawProperties)

parseJobManifests(rawJobs) ==
    LET raw == rawJobs.elems
        n == Len(raw)
        props(i) == JobProperties(raw[i].Properties)
        stop == FirstBad(n, {i \in 1..n : props(i).err # NoError})
    IN  [val |-> Slice([i \in 1..n |->
                    IF i < stop
                    THEN [JobOf(raw[i]) EXCEPT
                              !.Templates = JobTemplates(raw[i].Templates),
                              !.Networks = JobNetworks(raw[i].Networks),
                              !.Properties = props(i).val]
                    ELSE ZeroJob]),
         err |-> IF stop > n THEN NoError
                 ELSE <<"Parsing job properties", raw[stop].Name>> \o props(stop).err]

(***************************************************************************)
(* parseDeploymentManifest, statement group by statement group.  Each      *)
(* group maps the deployment built so far to the deployment after it, or   *)
(* to the error it returns with.                                           *)
(***************************************************************************)
\* Variant: the local starts from the zero Manifest, not from the defaults.
InitialDeploymentZero(defaults, depManifest) ==
    [ZeroManifest EXCEPT !.Name = depManifest.Name]

\* deployment := boshDeploymentDefaults; deployment.Name = depManifest.Name
InitialDeployment(defaults, depManifest) ==
    [defaults EXCEPT !.Name = depManifest.Name]

NetworksStep(dep, depManifest) ==
    LET r == parseNetworkManifests(depManifest.Networks)
    IN  IF r.err # NoError
        THEN [dep |-> dep, err |-> Wrap(r.err, "Parsing networks")]
        ELSE [dep |-> [dep EXCEPT !.Networks = r.val], err |-> NoError]

ResourcePoolsStep(dep, depManifest) ==
    LET r == parseResourcePoolManifests(depManifest.ResourcePools)
    IN  IF r.err # NoError
        THEN [dep |-> dep, err |-> Wrap(r.err, "Parsing resource_pools")]
        ELSE [dep |-> [dep EXCEPT !.ResourcePools = r.val], err |-> NoError]

DiskPoolsStep(dep, depManifest) ==
    LET r == parseDiskPoolManifests(depManifest.DiskPools)
    IN  IF r.err # NoError
        THEN [dep |-> dep, err |-> Wrap(r.err, "Parsing disk_pools")]
        ELSE [dep |-> [dep EXCEPT !.DiskPools = r.val], err |-> NoError]

JobsStep(dep, depManifest) ==
    LET r == parseJobManifests(depManifest.Jobs)
    IN  IF r.err # NoError
        THEN [dep |-> dep, err |-> Wrap(r.err, "Parsing jobs")]
        ELSE [dep |-> [dep EXCEPT !.Jobs = r.val], err |-> NoError]

\* Variant: the error of the builder is dropped and its result stored.
PropertiesStepIgnoresError(dep, depManifest) ==
    LET r == BuildMap(depManifest.Properties)
    IN  [dep |-> [dep EXCEPT !.Properties = r.val], err |-> NoError]

PropertiesStep(dep, depManifest) ==
    LET r == BuildMap(depManifest.Properties)
    IN  IF r.err # NoError
        THEN [dep |-> dep, err |-> Wrap(r.err, "Parsing global manifest properties")]
        ELSE [dep |-> [dep EXCEPT !.Properties = r.val], err |-> NoError]

\* Variant: the parsed watch time is checked but not stored.
UpdateStepKeepsDefault(dep, depManifest) ==
    IF ~depManifest.Update.UpdateWatchTime.isNil THEN
        LET r == NewWatchTime(depManifest.Update.UpdateWatchTime.s)
        IN  IF r.err # NoError
            THEN [dep |-> dep, err |-> Wrap(r.err, "Parsing update watch time"),
                  called |-> TRUE]
            ELSE [dep |-> dep, err |-> NoError, called |-> TRUE]
    ELSE [dep |-> dep, err |-> NoError, called |-> FALSE]

\* called: whether NewWatchTime was invoked.
UpdateStep(dep, depManifest) ==
    IF ~depManifest.Update.UpdateWatchTime.isNil THEN
        LET r == NewWatchTime(depManifest.Update.UpdateWatchTime.s)
        IN  IF r.err # NoError
            THEN [dep |-> dep, err |-> Wrap(r.err, "Parsing update watch time"),
                  called |-> TRUE]
            ELSE [dep |-> [dep EXCEPT !.Update = Update(r.val)], err |-> NoError,
                  called |-> TRUE]
    ELSE [dep |-> dep, err |-> NoError, called |-> FALSE]

\* Variant: an error return that hands out what was built so far.
ErrorReturnBuilt(built, err) == [m |-> built, err |-> err]

\* return Manifest{}, err: what was built so far is not part of the result.
ErrorReturn(built, err) == [m |-> ZeroManifest, err |-> err]

(***************************************************************************)
(* The files callers pass to Parse.  A file is unreadable, or is not a     *)
(* document the decoder accepts, or decodes to the intermediate manifest   *)
(* doc.  The documents vary one section over every sequence of at most     *)
(* MaxEntries entries with the other sections fixed, vary the watch-time   *)
(* expression over every string of at most MaxWatchLen characters, and     *)
(* combine a valid and an invalid variant of every section.                *)
(***************************************************************************)
SeqsUpTo(S, n) == UNION {[1..k -> S] : k \in 0..n}

BoolKey == [kt |-> "bool", ks |-> "true"]
IntKey == [kt |-> "int", ks |-> "1"]
RawMapValue(kv) == [t |-> "map", v |-> kv]
RawSeqValue(s) == [t |-> "seq", v |-> s]

EmptyProps == RawMapOf(<<>>)
GoodProps ==
    RawMapOf((StrKey("timeout") :> Scalar("int", "30"))
             @@ (StrKey("nested") :> RawMapValue(StrKey("retries") :> Scalar("int", "3"))))
ListProps ==
    RawMapOf(StrKey("hosts") :> RawSeqValue(<<Scalar("string", "h1"), Scalar("bool", "true")>>))
BoolKeyProps == RawMapOf((StrKey("timeout") :> Scalar("int", "30")) @@ (BoolKey :> Scalar("int", "1")))
DeepBadProps ==
    RawMapOf(StrKey("nested") :>
        RawSeqValue(<<Scalar("string", "s"), RawMapValue(IntKey :> Scalar("null", ""))>>))
CustomProps == RawMapOf(StrKey("k") :> [t |-> "custom", v |-> ""])

RawBlocks == {NilMap, EmptyProps, GoodProps, ListProps, BoolKeyProps, DeepBadProps, CustomProps}

EntryNames == {"a", "b"}

RawNetwork(name, cloud) ==
    [Name |-> name, Type |-> "dynamic", CloudProperties |-> cloud, IP |-> "",
     Netmask |-> "", Gateway |-> "", DNS |-> NilSlice]
RawResourcePool(name, cloud, env) ==
    [Name |-> name, Network |-> "default", CloudProperties |-> cloud, Env |-> env]
RawDiskPool(name, cloud) == [Name |-> name, DiskSize |-> 1024, CloudProperties |-> cloud]
RawJob(name, lifecycle, templates, networks, props) ==
    [Name |-> name, Instances |-> 2, Lifecycle |-> lifecycle, Templates |-> templates,
     Networks |-> networks, PersistentDisk |-> 0, PersistentDiskPool |-> "",
     Properties |-> props]
RawRef(name, release) == [Name |-> name, Release |-> release]
RawJobNetwork(name, default, ips) == [Name |-> name, Default |-> default, StaticIPs |-> ips]

RawTemplateLists ==
    {NilSlice, Slice(<<>>), Slice(<<RawRef("app", "rel1")>>), Slice(<<RawRef("", "rel1")>>),
     Slice(<<RawRef("app", "")>>), Slice(<<RawRef("app", "rel1"), RawRef("app", "rel1")>>),
     Slice(<<RawRef("web", "rel1"), RawRef("app", "rel2"), RawRef("", "")>>)}

RawJobNetworkLists ==
    {NilSlice, Slice(<<>>), Slice(<<RawJobNetwork("default", NilSlice, NilSlice)>>),
     Slice(<<RawJobNetwork("vip", Slice(<<"dns", "gateway">>), Slice(<<"10.0.0.2">>)),
             RawJobNetwork("default", Slice(<<>>), NilSlice),
             RawJobNetwork("vip", Slice(<<"gateway", "gateway">>), NilSlice)>>)}

NetworkEntries == {RawNetwork(n, p) : n \in EntryNames, p \in RawBlocks}
ResourcePoolEntries ==
    {RawResourcePool(n, p, NilMap) : n \in EntryNames, p \in {NilMap, GoodProps, BoolKeyProps}}
    \cup {RawResourcePool("a", GoodProps, e) : e \in RawBlocks}
DiskPoolEntries ==
    {RawDiskPool(n, p) : n \in EntryNames, p \in {NilMap, GoodProps, DeepBadProps}}
JobEntries ==
    {RawJob(n, l, NilSlice, NilSlice, NilMap) : n \in EntryNames, l \in {"", "errand"}}
    \cup {RawJob("a", "", t, NilSlice, NilMap) : t \in RawTemplateLists}
    \cup {RawJob("a", "", NilSlice, jn, NilMap) : jn \in RawJobNetworkLists}
    \cup {RawJob("a", "service", NilSlice, NilSlice, p) : p \in RawBlocks}

WatchChars == {"0", "1", "2", "-", "x"}
WatchTimes == {NilString} \cup {StringPtr(s) : s \in SeqsUpTo(WatchChars, MaxWatchLen)}

RawManifest(name, wt, networks, resourcePools, diskPools, jobs, props) ==
    [Name |-> name, Update |-> [UpdateWatchTime |-> wt], Networks |-> networks,
     ResourcePools |-> resourcePools, DiskPools |-> diskPools, Jobs |-> jobs,
     Properties |-> props]

ZeroRawManifest == RawManifest("", NilString, NilSlice, NilSlice, NilSlice, NilSlice, NilMap)

GoodNetworks == Slice(<<RawNetwork("default", GoodProps)>>)
GoodResourcePools == Slice(<<RawResourcePool("pool", GoodProps, EmptyProps)>>)
GoodDiskPools == Slice(<<RawDiskPool("disks", NilMap)>>)
GoodJobs ==
    Slice(<<RawJob("web", "", Slice(<<RawRef("app", "rel1")>>),
                   Slice(<<RawJobNetwork("default", NilSlice, NilSlice)>>), GoodProps)>>)

BadNetworks == Slice(<<RawNetwork("default", GoodProps), RawNetwork("broken", BoolKeyProps)>>)
BadResourcePools ==
    Slice(<<RawResourcePool("pool", GoodProps, EmptyProps),
            RawResourcePool("broken", GoodProps, DeepBadProps)>>)
BadDiskPools == Slice(<<RawDiskPool("disks", NilMap), RawDiskPool("broken", BoolKeyProps)>>)
BadJobs ==
    Slice(<<RawJob("web", "", NilSlice, NilSlice, GoodProps),
            RawJob("broken", "", NilSlice, NilSlice, DeepBadProps)>>)

GoodWatchTime == StringPtr(<<"1", "-", "2">>)
BadWatchTime == StringPtr(<<"2", "-", "1">>)

Documents ==
    {RawManifest("dep", wt, n, r, d, j, p) :
        wt \in {NilString, GoodWatchTime, BadWatchTime},
        n \in {GoodNetworks, BadNetworks}, r \in {GoodResourcePools, BadResourcePools},
        d \in {GoodDiskPools, BadDiskPools}, j \in {GoodJobs, BadJobs},
        p \in {GoodProps, BoolKeyProps}}
    \cup {RawManifest("dep", NilString, Slice(n), GoodResourcePools, GoodDiskPools,
                      GoodJobs, GoodProps) : n \in SeqsUpTo(NetworkEntries, MaxEntries)}
    \cup {RawManifest("dep", NilString, GoodNetworks, Slice(r), GoodDiskPools,
                      GoodJobs, GoodProps) : r \in SeqsUpTo(ResourcePoolEntries, MaxEntries)}
    \cup {RawManifest("dep", NilString, GoodNetworks, GoodResourcePools, Slice(d),
                      GoodJobs, GoodProps) : d \in SeqsUpTo(DiskPoolEntries, MaxEntries)}
    \cup {RawManifest("dep", NilString, GoodNetworks, GoodResourcePools, GoodDiskPools,
                      Slice(j), GoodProps) : j \in SeqsUpTo(JobEntries, MaxEntries)}
    \cup {RawManifest(name, NilString, NilSlice, NilSlice, NilSlice, NilSlice, p) :
            name \in {"", "dep"}, p \in RawBlocks}
    \cup {RawManifest("dep", wt, GoodNetworks, GoodResourcePools, GoodDiskPools,
                      GoodJobs, GoodProps) : wt \in WatchTimes}

Unreadable == [kind |-> "unreadable", doc |-> ZeroRawManifest]
Garbage == [kind |-> "garbage", doc |-> ZeroRawManifest]
Yaml(doc) == [kind |-> "yaml", doc |-> doc]

Files == {Unreadable, Garbage} \cup {Yaml(d) : d \in Documents}

\* The files of the callers that run concurrently.
ConcFiles ==
    {Unreadable, Garbage}
    \cup {Yaml(RawManifest("dep", wt, GoodNetworks, GoodResourcePools, GoodDiskPools,
                           GoodJobs, GoodProps)) :
            wt \in {NilString, GoodWatchTime, BadWatchTime}}
    \cup {Yaml(RawManifest("dep", NilString, GoodNetworks, GoodResourcePools,
                           GoodDiskPools, BadJobs, GoodProps))}

(***************************************************************************)
(* Parse, step by step.                                                    *)
(***************************************************************************)
NoResult == [m |-> ZeroManifest, err |-> NoError]

Init ==
    /\ boshDeploymentDefaults = DeploymentDefaults
    /\ pc = [c \in Callers |-> "idle"]
    /\ path = [c \in Callers |-> Unreadable]
    /\ comboManifest = [c \in Callers |-> ZeroRawManifest]
    /\ deployment = [c \in Callers |-> ZeroManifest]
    /\ inner = [c \in Callers |-> NoResult]
    /\ ret = [c \in Callers |-> NoResult]
    /\ calls = [c \in Callers |-> <<>>]

\* A caller invokes Parse(path) with one of the files F.
Call(c, F) ==
    /\ pc[c] = "idle"
    /\ \E f \in F : path' = [path EXCEPT ![c] = f]
    /\ pc' = [pc EXCEPT ![c] = "ReadFile"]
    /\ UNCHANGED <<boshDeploymentDefaults, comboManifest, deployment, inner, ret, calls>>

\* contents, err := p.fs.ReadFile(path)
ReadFile(c) ==
    /\ pc[c] = "ReadFile"
    /\ calls' = [calls EXCEPT ![c] = Append(@, "ReadFile")]
    /\ IF path[c].kind = "unreadable"
       THEN /\ ret' = [ret EXCEPT ![c] =
                        ErrorReturn(ZeroManifest, <<"Reading file", "read error">>)]
            /\ pc' = [pc EXCEPT ![c] = "done"]
       ELSE /\ pc' = [pc EXCEPT ![c] = "Unmarshal"]
            /\ UNCHANGED ret
    /\ UNCHANGED <<boshDeploymentDefaults, path, comboManifest, deployment, inner>>

\* err = candiedyaml.Unmarshal(contents, &comboManifest)
Unmarshal(c) ==
    /\ pc[c] = "Unmarshal"
    /\ calls' = [calls EXCEPT ![c] = Append(@, "Unmarshal")]
    /\ IF path[c].kind = "garbage"
       THEN /\ ret' = [ret EXCEPT ![c] =
                        ErrorReturn(ZeroManifest,
                            <<"Unmarshalling BOSH deployment manifest", "yaml error">>)]
            /\ pc' = [pc EXCEPT ![c] = "done"]
            /\ UNCHANGED comboManifest
       ELSE /\ comboManifest' = [comboManifest EXCEPT ![c] = path[c].doc]
            /\ pc' = [pc EXCEPT ![c] = "parseDeploymentManifest"]
            /\ UNCHANGED ret
    /\ UNCHANGED <<boshDeploymentDefaults, path, deployment, inner>>

\* Variant: disk pools are parsed before resource pools.
NextSectionSwapped(section) ==
    CASE section = "networks" -> "disk_pools"
      [] section = "disk_pools" -> "resource_pools"
      [] section = "resource_pools" -> "jobs"
      [] section = "jobs" -> "properties"
      [] section = "properties" -> "update"

\* The order of the statement groups of parseDeploymentManifest.
NextSection(section) ==
    CASE section = "networks" -> "resource_pools"
      [] section = "resource_pools" -> "disk_pools"
      [] section = "disk_pools" -> "jobs"
      [] section = "jobs" -> "properties"
      [] section = "properties" -> "update"

\* Entry of parseDeploymentManifest: the defaults are copied into the local.
Begin(c) ==
    /\ pc[c] = "parseDeploymentManifest"
    /\ deployment' = [deployment EXCEPT ![c] =
                        InitialDeployment(boshDeploymentDefaults, comboManifest[c])]
    /\ pc' = [pc EXCEPT ![c] = "networks"]
    /\ UNCHANGED <<boshDeploymentDefaults, path, comboManifest, inner, ret, calls>>

\* One section was parsed with result r: return on error, else store it in
\* the local and go on with the next section.
Store(c, section, r, callee) ==
    /\ calls' = [calls EXCEPT ![c] = Append(@, callee)]
    /\ IF r.err # NoError
       THEN /\ inner' = [inner EXCEPT ![c] = ErrorReturn(deployment[c], r.err)]
            /\ pc' = [pc EXCEPT ![c] = "return"]
            /\ UNCHANGED deployment
       ELSE /\ deployment' = [deployment EXCEPT ![c] = r.dep]
            /\ pc' = [pc EXCEPT ![c] = NextSection(section)]
            /\ UNCHANGED inner
    /\ UNCHANGED <<boshDeploymentDefaults, path, comboManifest, ret>>

ParseNetworks(c) ==
    /\ pc[c] = "networks"
    /\ Store(c, "networks", NetworksStep(deployment[c], comboManifest[c]),
             "parseNetworkManifests")

ParseResourcePools(c) ==
    /\ pc[c] = "resource_pools"
    /\ Store(c, "resource_pools", ResourcePoolsStep(deployment[c], comboManifest[c]),
             "parseResourcePoolManifests")

ParseDiskPools(c) ==
    /\ pc[c] = "disk_pools"
    /\ Store(c, "disk_pools", DiskPoolsStep(deployment[c], comboManifest[c]),
             "parseDiskPoolManifests")

ParseJobs(c) ==
    /\ pc[c] = "jobs"
    /\ Store(c, "jobs", JobsStep(deployment[c], comboManifest[c]), "parseJobManifests")

ParseProperties(c) ==
    /\ pc[c] = "properties"
    /\ Store(c, "properties", PropertiesStep(deployment[c], comboManifest[c]), "BuildMap")

\* Variant: the override is stored in the package-level default as well.
ParseUpdateShared(c) ==
    /\ pc[c] = "update"
    /\ LET r == UpdateStep(deployment[c], comboManifest[c])
       IN  /\ calls' = [calls EXCEPT ![c] =
                            IF r.called THEN Append(@, "NewWatchTime") ELSE @]
           /\ IF r.err # NoError
              THEN /\ inner' = [inner EXCEPT ![c] = ErrorReturn(deployment[c], r.err)]
                   /\ UNCHANGED <<deployment, boshDeploymentDefaults>>
              ELSE /\ deployment' = [deployment EXCEPT ![c] = r.dep]
                   /\ inner' = [inner EXCEPT ![c] = [m |-> r.dep, err |-> NoError]]
                   /\ boshDeploymentDefaults' =
                        [boshDeploymentDefaults EXCEPT !.Update = r.dep.Update]
    /\ pc' = [pc EXCEPT ![c] = "return"]
    /\ UNCHANGED <<path, comboManifest, ret>>

\* The watch-time override and the return of parseDeploymentManifest.
ParseUpdate(c) ==
    /\ pc[c] = "update"
    /\ LET r == UpdateStep(deployment[c], comboManifest[c])
       IN  /\ calls' = [calls EXCEPT ![c] =
                            IF r.called THEN Append(@, "NewWatchTime") ELSE @]
           /\ IF r.err # NoError
              THEN /\ inner' = [inner EXCEPT ![c] = ErrorReturn(deployment[c], r.err)]
                   /\ UNCHANGED deployment
              ELSE /\ deployment' = [deployment EXCEPT ![c] = r.dep]
                   /\ inner' = [inner EXCEPT ![c] = [m |-> r.dep, err |-> NoError]]
    /\ pc' = [pc EXCEPT ![c] = "return"]
    /\ UNCHANGED <<boshDeploymentDefaults, path, comboManifest, ret>>

\* Parse after parseDeploymentManifest returned.
Return(c) ==
    /\ pc[c] = "return"
    /\ ret' = [ret EXCEPT ![c] =
                IF inner[c].err # NoError
                THEN ErrorReturn(inner[c].m,
                        Wrap(inner[c].err, "Unmarshalling BOSH deployment manifest"))
                ELSE [m |-> inner[c].m, err |-> NoError]]
    /\ pc' = [pc EXCEPT ![c] = "done"]
    /\ UNCHANGED <<boshDeploymentDefaults, path, comboManifest, deployment, inner, calls>>

\* The caller has taken the result: the frame of the call is gone.
Finish(c) ==
    /\ pc[c] = "done"
    /\ pc' = [pc EXCEPT ![c] = "idle"]
    /\ path' = [path EXCEPT ![c] = Unreadable]
    /\ comboManifest' = [comboManifest EXCEPT ![c] = ZeroRawManifest]
    /\ deployment' = [deployment EXCEPT ![c] = ZeroManifest]
    /\ inner' = [inner EXCEPT ![c] = NoResult]
    /\ ret' = [ret EXCEPT ![c] = NoResult]
    /\ calls' = [calls EXCEPT ![c] = <<>>]
    /\ UNCHANGED boshDeploymentDefaults

CallFiles(c) == Call(c, Files)
CallConcFiles(c) == Call(c, ConcFiles)

Steps(c) ==
    \/ ReadFile(c)
    \/ Unmarshal(c)
    \/ Begin(c)
    \/ ParseNetworks(c)
    \/ ParseResourcePools(c)
    \/ ParseDiskPools(c)
    \/ ParseJobs(c)
    \/ ParseProperties(c)
    \/ ParseUpdate(c)
    \/ Return(c)
    \/ Finish(c)

\* One caller, parsing any of the files, call after call.
Next == CallFiles(FirstCaller) \/ Steps(FirstCaller)

Spec == Init /\ [][Next]_vars

\* Several callers whose calls interleave.
NextConc == \E c \in Callers : CallConcFiles(c) \/ Steps(c)

SpecConc == Init /\ [][NextConc]_vars

(***************************************************************************)
(* Vocabulary of the properties.                                           *)
(***************************************************************************)
Range(s) == {s[i] : i \in 1..Len(s)}
IsPrefix(s, t) == Len(s) <= Len(t) /\ SubSeq(t, 1, Len(s)) = s

Done(c) == pc[c] = "done"
Decoded(c) == path[c].kind = "yaml"
Succeeded(c) == Done(c) /\ ret[c].err = NoError
Failed(c) == Done(c) /\ ret[c].err # NoError

\* The document of a call and the model it returned.
Doc(c) == path[c].doc
Out(c) == ret[c].m

\* A raw value holds a key that is not a string, at any depth.
RECURSIVE HasNonStringKey(_)
HasNonStringKey(val) ==
    IF val.t = "map"
    THEN \E k \in DOMAIN val.v : k.kt # "string" \/ HasNonStringKey(val.v[k])
    ELSE IF val.t = "seq" THEN \E i \in 1..Len(val.v) : HasNonStringKey(val.v[i])
    ELSE FALSE

BlockHasNonStringKey(raw) ==
    ~raw.isNil /\ HasNonStringKey([t |-> "map", v |-> raw.kv])

\* A raw value holds a value of a dynamic type the builder does not know.
RECURSIVE HasUnsupportedValue(_)
HasUnsupportedValue(val) ==
    IF val.t = "map" THEN \E k \in DOMAIN val.v : HasUnsupportedValue(val.v[k])
    ELSE IF val.t = "seq" THEN \E i \in 1..Len(val.v) : HasUnsupportedValue(val.v[i])
    ELSE val.t \notin ScalarTypes

BlockHasUnsupportedValue(raw) ==
    ~raw.isNil /\ HasUnsupportedValue([t |-> "map", v |-> raw.kv])

\* Some property block of the document satisfies P.
SomeBlock(doc, P(_)) ==
    \/ P(doc.Properties)
    \/ \E i \in 1..Len(doc.Networks.elems) : P(doc.Networks.elems[i].CloudProperties)
    \/ \E i \in 1..Len(doc.ResourcePools.elems) :
          \/ P(doc.ResourcePools.elems[i].CloudProperties)
          \/ P(doc.ResourcePools.elems[i].Env)
    \/ \E i \in 1..Len(doc.DiskPools.elems) : P(doc.DiskPools.elems[i].CloudProperties)
    \/ \E i \in 1..Len(doc.Jobs.elems) : P(doc.Jobs.elems[i].Properties)

DocHasNonStringKey(doc) == SomeBlock(doc, BlockHasNonStringKey)
DocHasUnsupportedValue(doc) == SomeBlock(doc, BlockHasUnsupportedValue)

\* The sections in the order the claims name them, with the callee that
\* parses each and the message its failure is wrapped in.
Callees ==
    <<"parseNetworkManifests", "parseResourcePoolManifests", "parseDiskPoolManifests",
      "parseJobManifests", "BuildMap", "NewWatchTime">>
SectionMessages ==
    <<"Parsing networks", "Parsing resource_pools", "Parsing disk_pools", "Parsing jobs",
      "Parsing global manifest properties", "Parsing update watch time">>

SectionInvalid(doc, k) ==
    CASE k = 1 -> parseNetworkManifests(doc.Networks).err # NoError
      [] k = 2 -> parseResourcePoolManifests(doc.ResourcePools).err # NoError
      [] k = 3 -> parseDiskPoolManifests(doc.DiskPools).err # NoError
      [] k = 4 -> parseJobManifests(doc.Jobs).err # NoError
      [] k = 5 -> BuildMap(doc.Properties).err # NoError
      [] k = 6 -> /\ ~doc.Update.UpdateWatchTime.isNil
                  /\ NewWatchTime(doc.Update.UpdateWatchTime.s).err # NoError

InvalidSections(doc) == {k \in 1..Len(Callees) : SectionInvalid(doc, k)}
SectionsValid(doc) == InvalidSections(doc) \ {Len(Callees)} = {}

\* The value of an integer literal, digit by digit.
RECURSIVE Pow10(_)
Pow10(n) == IF n = 0 THEN 1 ELSE 10 * Pow10(n - 1)
RECURSIVE WeightedSum(_, _)
WeightedSum(s, i) ==
    IF i > Len(s) THEN 0
    ELSE DigitValue(s[i]) * Pow10(Len(s) - i) + WeightedSum(s, i + 1)
IsLiteral(s) == s # <<>> /\ \A i \in 1..Len(s) : IsDigit(s[i])
LiteralValue(s) == WeightedSum(s, 1)

(***************************************************************************)
(* Properties.                                                             *)
(***************************************************************************)

\* C1: a Parse that fails, at whichever step, returns the zero-value
\* Manifest: nothing of what was built before the failing step is in it.
C1_FailureReturnsZeroManifest ==
    \A c \in Callers : Failed(c) => Out(c) = ZeroManifest

\* A call failed in the jobs section after three sections were built, and
\* the job parser had returned a partially filled slice with its error.
C1_Witness ==
    \E c \in Callers :
        /\ Failed(c)
        /\ calls[c][Len(calls[c])] = "parseJobManifests"
        /\ deployment[c].Name = "dep"
        /\ deployment[c].Networks.elems # <<>>
        /\ deployment[c].ResourcePools.elems # <<>>
        /\ deployment[c].DiskPools.elems # <<>>
        /\ deployment[c].Update = Update(WatchTime(0, 300000))
        /\ LET r == parseJobManifests(comboManifest[c].Jobs)
           IN  r.err # NoError /\ r.val.elems[1] # ZeroJob

\* C2: a document that parses and supplies no update_watch_time gets the
\* update interval (0, 300000), and NewWatchTime is not invoked for it.
C2_DefaultUpdateWhenAbsent ==
    \A c \in Callers :
        (Decoded(c) /\ Doc(c).Update.UpdateWatchTime.isNil) =>
            /\ "NewWatchTime" \notin Range(calls[c])
            /\ Succeeded(c) => Out(c).Update = Update(WatchTime(0, 300000))

C2_Witness ==
    \E c \in Callers :
        /\ Succeeded(c)
        /\ Doc(c).Update.UpdateWatchTime.isNil
        /\ Out(c).Jobs.elems # <<>>
        /\ Out(c).Update.UpdateWatchTime.End = 300000

\* C3: a supplied watch-time expression that is one literal n gives the
\* interval (0, n); a pair a-b with a <= b gives (a, b); a pair with a > b
\* fails the Parse; every returned interval has 0 <= start <= end.
C3_WatchTimeOverride ==
    \A c \in Callers :
        /\ (Done(c) /\ Decoded(c) /\ ~Doc(c).Update.UpdateWatchTime.isNil) =>
              LET e == Doc(c).Update.UpdateWatchTime.s
              IN  /\ (IsLiteral(e) /\ SectionsValid(Doc(c))) =>
                        /\ ret[c].err = NoError
                        /\ Out(c).Update = Update(WatchTime(0, LiteralValue(e)))
                  /\ \A i \in 1..Len(e) :
                        LET a == SubSeq(e, 1, i - 1)
                            b == SubSeq(e, i + 1, Len(e))
                        IN  (e[i] = "-" /\ IsLiteral(a) /\ IsLiteral(b)) =>
                                IF LiteralValue(a) <= LiteralValue(b)
                                THEN SectionsValid(Doc(c)) =>
                                        /\ ret[c].err = NoError
                                        /\ Out(c).Update =
                                             Update(WatchTime(LiteralValue(a), LiteralValue(b)))
                                ELSE ret[c].err # NoError
        /\ Succeeded(c) =>
              /\ 0 <= Out(c).Update.UpdateWatchTime.Start
              /\ Out(c).Update.UpdateWatchTime.Start <= Out(c).Update.UpdateWatchTime.End

C3_Witness ==
    \E c \in Callers :
        /\ Succeeded(c)
        /\ Doc(c).Update.UpdateWatchTime = StringPtr(<<"1", "-", "2">>)
        /\ Out(c).Update = Update(WatchTime(1, 2))
        /\ "NewWatchTime" \in Range(calls[c])

\* C4: the sections are processed in the order networks, resource pools,
\* disk pools, jobs, global properties, watch time, up to and including the
\* first invalid one; the error reported is that of the first invalid section.
C4_FixedOrderFirstFailure ==
    \A c \in Callers :
        /\ IsPrefix(calls[c], <<"ReadFile", "Unmarshal">> \o Callees)
           \/ (Doc(c).Update.UpdateWatchTime.isNil
               /\ IsPrefix(calls[c], <<"ReadFile", "Unmarshal">> \o SubSeq(Callees, 1, 5)))
        /\ (Done(c) /\ Decoded(c)) =>
              LET bad == InvalidSections(Doc(c))
                  last == IF bad # {} THEN Min(bad)
                          ELSE IF Doc(c).Update.UpdateWatchTime.isNil THEN 5 ELSE 6
              IN  /\ calls[c] = <<"ReadFile", "Unmarshal">> \o SubSeq(Callees, 1, last)
                  /\ IF bad = {} THEN ret[c].err = NoError
                     ELSE /\ Len(ret[c].err) >= 2
                          /\ ret[c].err[2] = SectionMessages[Min(bad)]

\* Resource pools, jobs and the watch time are all invalid; the error is
\* that of the resource pools and nothing after them was processed.
C4_Witness ==
    \E c \in Callers :
        /\ Failed(c)
        /\ InvalidSections(Doc(c)) = {2, 4, 6}
        /\ ret[c].err[2] = "Parsing resource_pools"
        /\ calls[c][Len(calls[c])] = "parseResourcePoolManifests"

\* Two sequences of named entries correspond index by index.
SameNames(out, raw) ==
    /\ Len(out.elems) = Len(raw.elems)
    /\ \A i \in 1..Len(raw.elems) : out.elems[i].Name = raw.elems[i].Name

\* C5: in a successful parse every section has the length of its input and
\* the name of entry i is the name of input entry i, and so have the template
\* references, network attachments and default-routing tags of every job.
C5_IndexCorrespondence ==
    \A c \in Callers :
        Succeeded(c) =>
            /\ SameNames(Out(c).Networks, Doc(c).Networks)
            /\ SameNames(Out(c).ResourcePools, Doc(c).ResourcePools)
            /\ SameNames(Out(c).DiskPools, Doc(c).DiskPools)
            /\ SameNames(Out(c).Jobs, Doc(c).Jobs)
            /\ \A i \in 1..Len(Doc(c).Jobs.elems) :
                  LET job == Out(c).Jobs.elems[i]
                      rawJob == Doc(c).Jobs.elems[i]
                  IN  /\ SameNames(job.Templates, rawJob.Templates)
                      /\ SameNames(job.Networks, rawJob.Networks)
                      /\ \A k \in 1..Len(rawJob.Networks.elems) :
                            LET tags == job.Networks.elems[k].Default.elems
                                rawTags == rawJob.Networks.elems[k].Default.elems
                            IN  /\ Len(tags) = Len(rawTags)
                                /\ \A t \in 1..Len(rawTags) : tags[t] = rawTags[t]

\* Two jobs of the same name, one with a repeated template reference, the
\* other with repeated network attachments and repeated routing tags.
C5_Witness ==
    \E c \in Callers :
        /\ Succeeded(c)
        /\ Len(Out(c).Jobs.elems) = 2
        /\ Out(c).Jobs.elems[1].Name = Out(c).Jobs.elems[2].Name
        /\ Len(Out(c).Jobs.elems[1].Templates.elems) = 2
        /\ Out(c).Jobs.elems[1].Templates.elems[1].Name
             = Out(c).Jobs.elems[1].Templates.elems[2].Name
        /\ Len(Out(c).Jobs.elems[2].Networks.elems) = 3
        /\ Out(c).Jobs.elems[2].Networks.elems[3].Default.elems = <<"gateway", "gateway">>

\* The error comes from the property tree builder.
IsPropertyError(err) ==
    \/ "unsupported key type" \in Range(err)
    \/ "unsupported value type" \in Range(err)

\* The keys of a built map are the texts of the string keys of its source.
KeysKept(out, raw) ==
    /\ \A k \in DOMAIN raw.kv : k.kt = "string" /\ k.ks \in DOMAIN out.kv
    /\ \A s \in DOMAIN out.kv : StrKey(s) \in DOMAIN raw.kv

\* C6: a property block with a key that is not a string, at any depth, makes
\* Parse fail with a property error; a returned property tree has exactly
\* the string keys of its source.
C6_NonStringKeyFails ==
    \A c \in Callers :
        /\ (Done(c) /\ Decoded(c) /\ DocHasNonStringKey(Doc(c))) =>
              /\ ret[c].err # NoError
              /\ IsPropertyError(ret[c].err)
              /\ Out(c) = ZeroManifest
        /\ Succeeded(c) =>
              /\ KeysKept(Out(c).Properties, Doc(c).Properties)
              /\ \A i \in 1..Len(Doc(c).Jobs.elems) :
                    KeysKept(Out(c).Jobs.elems[i].Properties, Doc(c).Jobs.elems[i].Properties)
              /\ \A i \in 1..Len(Doc(c).Networks.elems) :
                    KeysKept(Out(c).Networks.elems[i].CloudProperties,
                             Doc(c).Networks.elems[i].CloudProperties)
              /\ \A i \in 1..Len(Doc(c).ResourcePools.elems) :
                    /\ KeysKept(Out(c).ResourcePools.elems[i].CloudProperties,
                                Doc(c).ResourcePools.elems[i].CloudProperties)
                    /\ KeysKept(Out(c).ResourcePools.elems[i].Env,
                                Doc(c).ResourcePools.elems[i].Env)
              /\ \A i \in 1..Len(Doc(c).DiskPools.elems) :
                    KeysKept(Out(c).DiskPools.elems[i].CloudProperties,
                             Doc(c).DiskPools.elems[i].CloudProperties)

\* The only offending key is an integer key inside a sequence inside the
\* properties of the second job.
C6_Witness ==
    \E c \in Callers :
        /\ Failed(c)
        /\ Len(Doc(c).Jobs.elems) = 2
        /\ Doc(c).Jobs.elems[2].Properties = DeepBadProps
        /\ ~BlockHasNonStringKey(Doc(c).Jobs.elems[1].Properties)
        /\ InvalidSections(Doc(c)) = {4}
        /\ ret[c].err[2] = "Parsing jobs"
        /\ "unsupported key type" \in Range(ret[c].err)

\* Some template reference of some job of the document has an empty name.
HasUnnamedTemplate(doc) ==
    \E i \in 1..Len(doc.Jobs.elems) :
        \E k \in 1..Len(doc.Jobs.elems[i].Templates.elems) :
            doc.Jobs.elems[i].Templates.elems[k].Name = ""

\* C7 as claimed: a template reference with an empty name makes Parse fail.
C7_UnnamedTemplateFails ==
    \A c \in Callers :
        (Done(c) /\ Decoded(c) /\ HasUnnamedTemplate(Doc(c))) => ret[c].err # NoError

\* C7: template references are copied as they are, name and release name,
\* empty or not: a document whose property blocks and watch time are valid
\* parses whatever the names of its template references, and every template
\* reference of the result has the name and release name of its source.
C7_TemplatesCopiedVerbatim ==
    \A c \in Callers :
        (Done(c) /\ Decoded(c) /\ InvalidSections(Doc(c)) = {}) =>
            /\ ret[c].err = NoError
            /\ Len(Out(c).Jobs.elems) = Len(Doc(c).Jobs.elems)
            /\ \A i \in 1..Len(Doc(c).Jobs.elems) :
                  LET refs == Out(c).Jobs.elems[i].Templates
                      rawRefs == Doc(c).Jobs.elems[i].Templates
                  IN  /\ refs.isNil = rawRefs.isNil
                      /\ Len(refs.elems) = Len(rawRefs.elems)
                      /\ \A k \in 1..Len(rawRefs.elems) :
                            /\ refs.elems[k].Name = rawRefs.elems[k].Name
                            /\ refs.elems[k].Release = rawRefs.elems[k].Release

\* A successful parse returned a template reference with an empty name, and
\* one with an empty release name.
C7_Witness ==
    \E c \in Callers :
        /\ Succeeded(c)
        /\ HasUnnamedTemplate(Doc(c))
        /\ \E i \in 1..Len(Out(c).Jobs.elems) :
              /\ Out(c).Jobs.elems[i].Templates.elems # <<>>
              /\ Out(c).Jobs.elems[i].Templates.elems[1].Name = ""
        /\ \E i \in 1..Len(Out(c).Jobs.elems) :
              /\ Out(c).Jobs.elems[i].Templates.elems # <<>>
              /\ Out(c).Jobs.elems[i].Templates.elems[1].Release = ""
              /\ Out(c).Jobs.elems[i].Templates.elems[1].Name = "app"

\* C8 as claimed: a job without a lifecycle gets a default, non-empty tag.
C8_LifecycleDefaulted ==
    \A c \in Callers :
        Succeeded(c) =>
            \A i \in 1..Len(Doc(c).Jobs.elems) :
                /\ Doc(c).Jobs.elems[i].Lifecycle = "" => Out(c).Jobs.elems[i].Lifecycle # ""
                /\ Doc(c).Jobs.elems[i].Lifecycle # "" =>
                      Out(c).Jobs.elems[i].Lifecycle = Doc(c).Jobs.elems[i].Lifecycle

\* C8: the lifecycle tag of a parsed job is the tag of its source, supplied
\* or not: a job without a lifecycle has the empty tag.
C8_LifecycleCopiedVerbatim ==
    \A c \in Callers :
        Succeeded(c) =>
            /\ Len(Out(c).Jobs.elems) = Len(Doc(c).Jobs.elems)
            /\ \A i \in 1..Len(Doc(c).Jobs.elems) :
                  Out(c).Jobs.elems[i].Lifecycle = Doc(c).Jobs.elems[i].Lifecycle

C8_Witness ==
    \E c \in Callers :
        /\ Succeeded(c)
        /\ Len(Doc(c).Jobs.elems) = 2
        /\ Doc(c).Jobs.elems[1].Lifecycle = ""
        /\ Out(c).Jobs.elems[1].Lifecycle = ""
        /\ Out(c).Jobs.elems[2].Lifecycle = "errand"

\* Every nil property block of the sections other than the jobs, and the
\* nil global block, became an empty map that is not nil.
NilBlocksBuiltEmpty(out, doc) ==
    /\ doc.Properties.isNil => out.Properties = EmptyMap
    /\ \A i \in 1..Len(doc.Networks.elems) :
          doc.Networks.elems[i].CloudProperties.isNil =>
              out.Networks.elems[i].CloudProperties = EmptyMap
    /\ \A i \in 1..Len(doc.ResourcePools.elems) :
          /\ doc.ResourcePools.elems[i].CloudProperties.isNil =>
                out.ResourcePools.elems[i].CloudProperties = EmptyMap
          /\ doc.ResourcePools.elems[i].Env.isNil =>
                out.ResourcePools.elems[i].Env = EmptyMap
    /\ \A i \in 1..Len(doc.DiskPools.elems) :
          doc.DiskPools.elems[i].CloudProperties.isNil =>
              out.DiskPools.elems[i].CloudProperties = EmptyMap

\* C9 as claimed: no property tree of a returned model is nil: every absent
\* block, a job's properties included, became an empty map.
C9_NoNilPropertyTree ==
    \A c \in Callers :
        Succeeded(c) =>
            /\ NilBlocksBuiltEmpty(Out(c), Doc(c))
            /\ \A i \in 1..Len(Doc(c).Jobs.elems) :
                  Doc(c).Jobs.elems[i].Properties.isNil =>
                      Out(c).Jobs.elems[i].Properties = EmptyMap

\* C9: an absent block is no error.  The absent global block, and the absent
\* cloud_properties or env of a network, resource pool or disk pool, become
\* an empty map that is not nil; the absent properties of a job stay nil.
C9_NilBlocks ==
    \A c \in Callers :
        /\ (Done(c) /\ Decoded(c) /\ ~DocHasNonStringKey(Doc(c))
              /\ ~DocHasUnsupportedValue(Doc(c)) /\ ~SectionInvalid(Doc(c), 6)) =>
              ret[c].err = NoError
        /\ Succeeded(c) =>
              /\ NilBlocksBuiltEmpty(Out(c), Doc(c))
              /\ \A i \in 1..Len(Doc(c).Jobs.elems) :
                    Doc(c).Jobs.elems[i].Properties.isNil =>
                        Out(c).Jobs.elems[i].Properties = NilMap

\* A disk pool without cloud_properties and a job without properties.
C9_Witness ==
    \E c \in Callers :
        /\ Succeeded(c)
        /\ Doc(c).DiskPools.elems # <<>>
        /\ Doc(c).DiskPools.elems[1].CloudProperties.isNil
        /\ Out(c).DiskPools.elems[1].CloudProperties = EmptyMap
        /\ Doc(c).Jobs.elems # <<>>
        /\ Doc(c).Jobs.elems[1].Properties.isNil
        /\ Out(c).Jobs.elems[1].Properties.isNil

\* C10: whatever calls ran or are running, the package-level default holds
\* the interval (0, 300000) and nothing else, and two calls given the same
\* file return the same result.
C10_DefaultsUntouched ==
    /\ boshDeploymentDefaults =
          [Name |-> "", Update |-> Update(WatchTime(0, 300000)), Networks |-> NilSlice,
           ResourcePools |-> NilSlice, DiskPools |-> NilSlice, Jobs |-> NilSlice,
           Properties |-> NilMap]
    /\ \A c, d \in Callers :
          (Done(c) /\ Done(d) /\ path[c] = path[d]) => ret[c] = ret[d]

\* One call returned an overridden interval while another call, which
\* returned the default interval, was still at its result.
C10_Witness ==
    \E c, d \in Callers :
        /\ c # d
        /\ Succeeded(c)
        /\ Out(c).Update = Update(WatchTime(1, 2))
        /\ Succeeded(d)
        /\ Doc(d).Update.UpdateWatchTime.isNil
        /\ Out(d).Update = Update(WatchTime(0, 300000))

====
